---- MODULE Spec2Model ----
(***************************************************************************)
(* A model of the ingestion and scheduling path of the game catalogue      *)
(* application:                                                            *)
(*   - the RAWG catalogue client        (src/src/worker/rawg_api.py)       *)
(*   - the ingestion tasks and the CRUD (src/src/worker/tasks.py,          *)
(*     layer they write through          src/src/backend/crud.py)          *)
(*   - the monthly rollup task          (src/src/worker/tasks.py)          *)
(*   - the favorites of a user          (src/src/backend/crud.py, main.py) *)
(*   - the dynamic task scheduler and   (src/src/backend/task_scheduler.py,*)
(*     its management API                src/src/backend/                  *)
(*                                       task_management_api.py)           *)
(* Each part has its own specification (SpecFetch, SpecIngest, SpecSched   *)
(* and SpecApi, SpecMonthly, SpecFav) over its own variables; the          *)
(* variables of the other parts stay at their initial values.              *)
(***************************************************************************)
EXTENDS Integers, Sequences, FiniteSets, TLC

VARIABLES
    \* ---- catalogue client (rawg_api.py) ----
    API_KEY,      \* TRUE iff RAWG_API_KEY was set when the module was imported
    fn,           \* which fetch function runs
    catalog,      \* what the remote catalogue holds: pages, page size, next markers
    fault,        \* how the transport misbehaves for one page of this run
    fpc,          \* position of the fetch: "idle", "request", "returned", "raised"
    params_page,  \* params["page"]
    i,            \* loop index of make_request's  for i in range(retries)
    all_games,    \* the accumulator of the fetch
    attempts,     \* the GET calls of the latest make_request call, in order
    getLog,       \* page number of every GET call issued by the fetch, in order
    response,     \* what the latest make_request call returned
    \* ---- ingestion tasks and persistence (tasks.py, crud.py, models.py) ----
    db,             \* the committed rows: games, attribute rows, association rows
    task,           \* the ingestion task that runs (or ran last)
    games_data,     \* the records the task's fetch returned
    tpc,            \* position of the task: "idle", "loop", "success", "failed"
    cursor,         \* index into games_data of the record processed next
    games_created,  \* the task's counter of created games
    games_updated,  \* the task's counter of updated games
    sessionOpen,    \* TRUE between db = SessionLocal() and db.close()
    rerun,          \* TRUE iff this run repeats the previous run (same task, same data)
    gamesAfterPrev, \* the games table as the previous run left it
    lastStep,       \* what the latest loop iteration did
    \* ---- dynamic scheduler (task_scheduler.py) ----
    running,        \* self.scheduler.running
    jobs,           \* the scheduler's job store: job id -> job
    task_configs,   \* self.task_configs: task id -> TaskConfig
    lastCall,       \* the latest call (scheduler method, API request or job
                    \* firing): what it returned and what it handed to the queue
    prevJobs,       \* the job store before that call
    prevConfigs,    \* task_configs before that call
    \* ---- monthly rollup task (tasks.py) ----
    today,          \* the date datetime.now() gives
    monthly_run,    \* the latest run of fetch_monthly_updates_task: the date it
                    \* ran on and its calls of fetch_games_for_month_task
    \* ---- favorites (crud.py, main.py) ----
    favorites,      \* table user_favorite_games: rows <<user_id, game_id>>
    lastFav,        \* the latest favorites request and its answer
    \* ---- Celery broker (celery_app.py) ----
    queue,          \* the executions handed to the broker and not yet taken
    \* ---- two ingestion tasks at once (tasks.py) ----
    workers         \* per worker: where it is in its iteration, its record

fetchVars == <<API_KEY, fn, catalog, fault, fpc, params_page, i, all_games,
               attempts, getLog, response>>

ingestVars == <<db, task, games_data, tpc, cursor, games_created, games_updated,
                sessionOpen, rerun, gamesAfterPrev, lastStep>>

schedVars == <<running, jobs, task_configs, lastCall, prevJobs, prevConfigs>>

monthlyVars == <<today, monthly_run>>

favVars == <<favorites, lastFav>>

brokerVars == <<queue>>

raceVars == <<workers>>

vars == <<fetchVars, ingestVars, schedVars, monthlyVars, favVars, brokerVars, raceVars>>

\* What an action of one part leaves alone: the variables of the other parts.
notFetchVars == <<ingestVars, schedVars, monthlyVars, favVars, brokerVars, raceVars>>
notIngestVars == <<fetchVars, schedVars, monthlyVars, favVars, brokerVars, raceVars>>
notSchedVars == <<fetchVars, ingestVars, monthlyVars, favVars, brokerVars, raceVars>>
notMonthlyVars == <<fetchVars, ingestVars, schedVars, favVars, brokerVars, raceVars>>
notFavVars == <<fetchVars, ingestVars, schedVars, monthlyVars, brokerVars, raceVars>>

(***************************************************************************)
(* Generic helpers                                                         *)
(***************************************************************************)
Last(s) == s[Len(s)]

RECURSIVE Pow2(_)
Pow2(n) == IF n = 0 THEN 1 ELSE 2 * Pow2(n - 1)

(***************************************************************************)
(*                     PART 1: the catalogue client                        *)
(***************************************************************************)

\* make_request(..., retries: int = 5, backoff_factor: float = 1.0)
retries == 5
backoff_factor == 1

\* Bounds of the remote catalogue the client is run against.
MaxPages == 2
MaxPageSize == 1

FetchFunctions == {"fetch_games_for_month", "fetch_recently_updated_games"}

\* The outcome of one  await client.get(...) ; response.raise_for_status() :
\* a response (200), an httpx.HTTPStatusError carrying a status, or an
\* httpx.RequestError (network failure, no status).
Ok200        == [exc |-> "none", status |-> 200]
NotFound     == [exc |-> "HTTPStatusError", status |-> 404]
BadGateway   == [exc |-> "HTTPStatusError", status |-> 502]
ServerError  == [exc |-> "HTTPStatusError", status |-> 500]
TooMany      == [exc |-> "HTTPStatusError", status |-> 429]
NetworkError == [exc |-> "RequestError", status |-> 0]

FailureKinds == {NotFound, BadGateway, ServerError, TooMany, NetworkError}

\* The records of page p: n records, distinct from those of every other page.
PageResults(p, n) == [j \in 1..n |-> p * 10 + j]

\* The JSON body of page p of the catalogue: its results and its next marker.
\* Every page before the last carries a next marker; the last one carries one
\* only when the catalogue overruns (a stale marker pointing past the end).
PageData(p) ==
    [results |-> PageResults(p, catalog.size),
     next    |-> (p < catalog.k) \/ catalog.overrun]

\* The transport: what the n-th GET (n counted from 0) of the request for page
\* p ends in.  The faulty page fails fault.fails times with fault.kind before
\* the server answers; a page past the end of the catalogue is a 404.
Transport(p, n) ==
    IF fault.page = p /\ n < fault.fails THEN fault.kind
    ELSE IF p > catalog.k THEN NotFound
    ELSE Ok200

\* Mutant: the credential check is missing.
CredentialMissing_Unchecked == FALSE

\* rawg_api.py:50 / :86   if not API_KEY: raise ValueError(...)
CredentialMissing == ~API_KEY

\* Mutant: a 404 is handled like a 502 (backoff, then the next iteration).
MakeRequestAttempt_Retry404(idx, out) ==
    IF out.exc = "none"
        THEN [ret |-> "response", slept |-> 0]
    ELSE IF out.exc = "HTTPStatusError" /\ out.status \in {404, 502}
        THEN [ret |-> "continue", slept |-> backoff_factor * Pow2(idx)]
    ELSE IF out.exc = "HTTPStatusError"
        THEN [ret |-> "continue", slept |-> 0]
    ELSE [ret |-> "continue", slept |-> backoff_factor * Pow2(idx)]

\* rawg_api.py:26-41  the body of one iteration of  for i in range(retries):
\* what it returns ("response", "None") or "continue" for falling through to
\* the next iteration, and how long it slept before doing so.
MakeRequestAttempt(idx, out) ==
    IF out.exc = "none"
        THEN [ret |-> "response", slept |-> 0]
    ELSE IF out.exc = "HTTPStatusError" /\ out.status = 404
        THEN [ret |-> "None", slept |-> 0]
    ELSE IF out.exc = "HTTPStatusError" /\ out.status = 502
        THEN [ret |-> "continue", slept |-> backoff_factor * Pow2(idx)]
    ELSE IF out.exc = "HTTPStatusError"
        THEN [ret |-> "continue", slept |-> 0]
    ELSE [ret |-> "continue", slept |-> backoff_factor * Pow2(idx)]

\* Mutant: the loop gives up one attempt early (range(retries - 1)).
LoopContinues_OneShort(idx) == idx + 1 < retries - 1

\* Mutant: the loop makes one attempt too many (range(retries + 1)).
LoopContinues_OneMore(idx) == idx + 1 < retries + 1

\* rawg_api.py:25  for i in range(retries): is there another iteration after idx
LoopContinues(idx) == idx + 1 < retries

\* Mutant: the page's results replace the accumulator instead of extending it.
ExtendAllGames_Overwrite(acc, data) == data.results

\* rawg_api.py:72 / :107  all_games.extend(data.get("results", []))
ExtendAllGames(acc, data) == acc \o data.results

\* rawg_api.py:74 / :109  if "next" in data and data["next"]:
HasNext(data) == data.next

InitFetch ==
    /\ API_KEY \in BOOLEAN
    /\ fn \in FetchFunctions
    /\ catalog \in [k : 1..MaxPages, size : 0..MaxPageSize, overrun : BOOLEAN]
    /\ fault \in
         {[page |-> 0, fails |-> 0, kind |-> Ok200]}
         \cup {f \in [page : 1..(MaxPages + 1), fails : 1..retries, kind : FailureKinds] :
                 /\ f.page <= catalog.k + 1
                 /\ f.kind = NotFound => f.fails = 1}
    /\ fpc = "idle"
    /\ params_page = 0
    /\ i = 0
    /\ all_games = <<>>
    /\ attempts = <<>>
    /\ getLog = <<>>
    /\ response = "none"

\* fetch_games_for_month / fetch_recently_updated_games up to the first request
\* (rawg_api.py:46-65, 82-100): the credential check, then params and the
\* empty accumulator.
FetchStart ==
    /\ fpc = "idle"
    /\ IF CredentialMissing
         THEN /\ fpc' = "raised"
              /\ UNCHANGED <<params_page, all_games>>
         ELSE /\ fpc' = "request"
              /\ params_page' = 1
              /\ all_games' = <<>>
    /\ UNCHANGED <<API_KEY, fn, catalog, fault, i, attempts, getLog, response>>
    /\ UNCHANGED notFetchVars

\* One iteration of make_request's loop (one GET), together with what the
\* caller's while-loop does when make_request returns (rawg_api.py:25-43,
\* 66-79, 101-114).
ClientGet ==
    /\ fpc = "request"
    /\ LET out  == Transport(params_page, i)
           step == MakeRequestAttempt(i, out)
           log  == IF i = 0 THEN <<>> ELSE attempts
           data == PageData(params_page)
       IN
       /\ getLog' = Append(getLog, params_page)
       /\ attempts' = Append(log, [exc |-> out.exc, status |-> out.status,
                                   slept |-> step.slept])
       /\ \/ /\ step.ret = "response"
             /\ response' = "response"
             /\ all_games' = ExtendAllGames(all_games, data)
             /\ i' = 0
             /\ IF HasNext(data)
                  THEN params_page' = params_page + 1 /\ fpc' = "request"
                  ELSE params_page' = params_page /\ fpc' = "returned"
          \/ /\ step.ret = "None"
             /\ response' = "None"
             /\ fpc' = "returned"
             /\ UNCHANGED <<all_games, i, params_page>>
          \/ /\ step.ret = "continue"
             /\ LoopContinues(i)
             /\ i' = i + 1
             /\ UNCHANGED <<all_games, params_page, fpc, response>>
          \/ /\ step.ret = "continue"
             /\ ~LoopContinues(i)
             /\ response' = "None"
             /\ fpc' = "returned"
             /\ UNCHANGED <<all_games, i, params_page>>
    /\ UNCHANGED <<API_KEY, fn, catalog, fault>>
    /\ UNCHANGED notFetchVars

NextFetch == FetchStart \/ ClientGet

\* The client at rest, for the specifications of the other parts.
InitFetchIdle ==
    /\ API_KEY = TRUE
    /\ fn = "fetch_games_for_month"
    /\ catalog = [k |-> 1, size |-> 0, overrun |-> FALSE]
    /\ fault = [page |-> 0, fails |-> 0, kind |-> Ok200]
    /\ fpc = "idle"
    /\ params_page = 0
    /\ i = 0
    /\ all_games = <<>>
    /\ attempts = <<>>
    /\ getLog = <<>>
    /\ response = "none"

(***************************************************************************)
(*                    PART 2: the dynamic scheduler                        *)
(*                                                                         *)
(* The scheduler is APScheduler's AsyncIOScheduler over a MemoryJobStore.  *)
(* A job's next_run_time is kept as "scheduled" (a future fire time) or    *)
(* "none" (paused).  The scheduler's methods are called by the API and by  *)
(* the application's startup hook, that is while the scheduler runs.       *)
(***************************************************************************)

\* task_scheduler.py:63-67  self.available_tasks
available_tasks == {"fetch_monthly_updates", "fetch_weekly_updates", "example_task"}

\* Keyword parameters the trigger constructors take (task_scheduler.py:125,
\* 127): any other keyword is a TypeError, a malformed value a ValueError.
IntervalTriggerParams ==
    {"weeks", "days", "hours", "minutes", "seconds", "start_date", "end_date",
     "timezone", "jitter"}
CronTriggerParams ==
    {"year", "month", "day", "week", "day_of_week", "hour", "minute", "second",
     "start_date", "end_date", "timezone", "jitter"}

\* trigger_config dicts: their keys, and whether every value is well formed.
Every30Seconds == [keys |-> {"seconds"}, well_formed |-> TRUE]
FirstOfMonth   == [keys |-> {"day", "hour", "minute"}, well_formed |-> TRUE]
EveryMonday    == [keys |-> {"day_of_week", "hour", "minute"}, well_formed |-> TRUE]
BadHour        == [keys |-> {"hour"}, well_formed |-> FALSE]

TaskIds == {"monthly_updates", "weekly_updates", "custom"}

\* task_scheduler.py:94-109  the default tasks
MonthlyDefault ==
    [id |-> "monthly_updates", name |-> "Monthly Game Updates",
     task_function |-> "fetch_monthly_updates", trigger_type |-> "cron",
     trigger_config |-> FirstOfMonth, args |-> <<>>, kwargs |-> <<>>,
     enabled |-> TRUE,
     description |-> "Fetch monthly game updates on the 1st of each month"]
WeeklyDefault ==
    [id |-> "weekly_updates", name |-> "Weekly Game Updates",
     task_function |-> "fetch_weekly_updates", trigger_type |-> "cron",
     trigger_config |-> EveryMonday, args |-> <<>>, kwargs |-> <<>>,
     enabled |-> TRUE,
     description |-> "Fetch weekly game updates every Monday"]
default_tasks == <<MonthlyDefault, WeeklyDefault>>

\* Configurations a caller submits (task_scheduler.py:28-38 TaskConfig).
Config(id, f, tt, tc, en) ==
    [id |-> id, name |-> "Task", task_function |-> f, trigger_type |-> tt,
     trigger_config |-> tc, args |-> <<1, 2>>, kwargs |-> <<>>, enabled |-> en,
     description |-> "submitted"]

SubmittedConfigs ==
    {Config(id, c[1], c[2], c[3], c[4]) : id \in TaskIds, c \in
        {<<"example_task", "interval", Every30Seconds, TRUE>>,
         <<"fetch_weekly_updates", "cron", EveryMonday, FALSE>>,
         <<"purge_database", "interval", Every30Seconds, TRUE>>,
         <<"example_task", "date", Every30Seconds, TRUE>>,
         <<"example_task", "interval", FirstOfMonth, TRUE>>,
         <<"fetch_monthly_updates", "cron", BadHour, FALSE>>}}

Put(f, k, v) == [x \in DOMAIN f \cup {k} |-> IF x = k THEN v ELSE f[x]]
Drop(f, k) == [x \in DOMAIN f \ {k} |-> f[x]]

\* task_scheduler.py:124-129  the trigger is built, or an exception is raised
TriggerBuilds(cfg) ==
    IF cfg.trigger_type = "interval"
        THEN cfg.trigger_config.keys \subseteq IntervalTriggerParams
             /\ cfg.trigger_config.well_formed
    ELSE IF cfg.trigger_type = "cron"
        THEN cfg.trigger_config.keys \subseteq CronTriggerParams
             /\ cfg.trigger_config.well_formed
    ELSE FALSE

\* task_scheduler.py:132-139  the job add_job registers
JobOf(cfg) ==
    [id |-> cfg.id, name |-> cfg.name, func |-> cfg.task_function,
     trigger |-> [type |-> cfg.trigger_type, config |-> cfg.trigger_config],
     args |-> cfg.args, kwargs |-> cfg.kwargs, next_run_time |-> "scheduled"]

\* A scheduler state st is [jobs, configs]; every method returns the state
\* it leaves and its return value.
Returned(j, c, r) == [jobs |-> j, configs |-> c, result |-> r]

\* Mutant: the job is paused, the stored flag is left as it was.
pause_task_KeepsEnabled(st, id) ==
    IF id \notin DOMAIN st.jobs
    THEN Returned(st.jobs, st.configs, FALSE)
    ELSE Returned([st.jobs EXCEPT ![id].next_run_time = "none"], st.configs, TRUE)

\* Mutant: the stored flag is cleared, the job is not paused.
pause_task_FlagOnly(st, id) ==
    IF id \notin DOMAIN st.jobs
    THEN Returned(st.jobs, st.configs, FALSE)
    ELSE Returned(st.jobs,
                  IF id \in DOMAIN st.configs
                      THEN [st.configs EXCEPT ![id].enabled = FALSE]
                      ELSE st.configs,
                  TRUE)

\* task_scheduler.py:167-177  pause_task
pause_task(st, id) ==
    IF id \notin DOMAIN st.jobs
    THEN Returned(st.jobs, st.configs, FALSE)
    ELSE Returned([st.jobs EXCEPT ![id].next_run_time = "none"],
                  IF id \in DOMAIN st.configs
                      THEN [st.configs EXCEPT ![id].enabled = FALSE]
                      ELSE st.configs,
                  TRUE)

\* task_scheduler.py:179-189  resume_task
resume_task(st, id) ==
    IF id \notin DOMAIN st.jobs
    THEN Returned(st.jobs, st.configs, FALSE)
    ELSE Returned([st.jobs EXCEPT ![id].next_run_time = "scheduled"],
                  IF id \in DOMAIN st.configs
                      THEN [st.configs EXCEPT ![id].enabled = TRUE]
                      ELSE st.configs,
                  TRUE)

\* Mutant: the configuration is stored before it is validated.
add_task_StoreFirst(st, cfg) ==
    IF cfg.task_function \notin available_tasks \/ ~TriggerBuilds(cfg)
    THEN Returned(st.jobs, Put(st.configs, cfg.id, cfg), FALSE)
    ELSE LET added == [jobs |-> Put(st.jobs, cfg.id, JobOf(cfg)),
                       configs |-> Put(st.configs, cfg.id, cfg)]
         IN IF ~cfg.enabled
            THEN Returned(pause_task(added, cfg.id).jobs,
                          pause_task(added, cfg.id).configs, TRUE)
            ELSE Returned(added.jobs, added.configs, TRUE)

\* task_scheduler.py:115-153  add_task
add_task(st, cfg) ==
    IF cfg.task_function \notin available_tasks
    THEN Returned(st.jobs, st.configs, FALSE)
    ELSE IF ~TriggerBuilds(cfg)
    THEN Returned(st.jobs, st.configs, FALSE)
    ELSE LET added == [jobs |-> Put(st.jobs, cfg.id, JobOf(cfg)),
                       configs |-> Put(st.configs, cfg.id, cfg)]
         IN IF ~cfg.enabled
            THEN Returned(pause_task(added, cfg.id).jobs,
                          pause_task(added, cfg.id).configs, TRUE)
            ELSE Returned(added.jobs, added.configs, TRUE)

\* Mutant: the job is unregistered, its stored configuration is kept.
remove_task_KeepsConfig(st, id) ==
    IF id \notin DOMAIN st.jobs
    THEN Returned(st.jobs, st.configs, FALSE)
    ELSE Returned(Drop(st.jobs, id), st.configs, TRUE)

\* task_scheduler.py:155-165  remove_task
remove_task(st, id) ==
    IF id \notin DOMAIN st.jobs
    THEN Returned(st.jobs, st.configs, FALSE)
    ELSE Returned(Drop(st.jobs, id), Drop(st.configs, id), TRUE)

\* Mutant: the new configuration is added over the old one (add_job replaces
\* an existing job), the old task is not removed first.
modify_task_NoRemove(st, id, cfg) ==
    add_task(st, [cfg EXCEPT !.id = id])

\* task_scheduler.py:191-201  modify_task
modify_task(st, id, cfg) ==
    LET removed == remove_task(st, id)
    IN add_task([jobs |-> removed.jobs, configs |-> removed.configs],
                [cfg EXCEPT !.id = id])

\* task_scheduler.py:91-113  _add_default_tasks
RECURSIVE AddAll(_, _)
AddAll(st, cfgs) ==
    IF cfgs = <<>> THEN st
    ELSE LET r == add_task(st, Head(cfgs))
         IN AddAll([jobs |-> r.jobs, configs |-> r.configs], Tail(cfgs))

\* task_scheduler.py:209-219  the dictionary get_tasks / get_task build for a job
TaskView(st, id) ==
    LET job == st.jobs[id]
        known == id \in DOMAIN st.configs
    IN [id |-> job.id, name |-> job.name, next_run_time |-> job.next_run_time,
        trigger |-> job.trigger,
        enabled |-> (job.next_run_time # "none"
                     /\ (IF known THEN st.configs[id].enabled ELSE TRUE)),
        description |-> IF known THEN st.configs[id].description ELSE "",
        task_function |-> IF known THEN st.configs[id].task_function ELSE "",
        args |-> IF known THEN st.configs[id].args ELSE <<>>,
        kwargs |-> IF known THEN st.configs[id].kwargs ELSE <<>>]

\* task_scheduler.py:203-221  get_tasks
get_tasks(st) == {TaskView(st, id) : id \in DOMAIN st.jobs}

\* task_scheduler.py:223-243  get_task: <<>> stands for None
get_task(st, id) ==
    IF id \in DOMAIN st.jobs THEN <<TaskView(st, id)>> ELSE <<>>

\* task_scheduler.py:249-258  _execute_celery_task: task_func.delay(*args, **kwargs)
execute_celery_task(task_function, args, kwargs) ==
    [func |-> task_function, args |-> args, kwargs |-> kwargs]

\* The status a handler answers with when its try block raises
\* HTTPException(status): the handlers with an  except HTTPException: raise
\* clause let it through, the others catch it in  except Exception  and
\* raise HTTPException(500) instead.
ReRaised(status, lets_http_through) ==
    IF lets_http_through THEN status ELSE 500

Responded(r, status, sent) ==
    [jobs |-> r.jobs, configs |-> r.configs, result |-> r.result,
     status |-> status, delayed |-> sent]

\* Mutant: the fields the request leaves unset take TaskConfig's defaults;
\* enabled defaults to True.
Merge_UnsetEnabledDefaults(current, update) ==
    [f \in DOMAIN current |->
        IF f \in DOMAIN update THEN update[f]
        ELSE IF f = "enabled" THEN TRUE
        ELSE current[f]]

\* task_management_api.py:116-120  the stored configuration with the fields
\* the request sets (exclude_unset) written over it
Merge(current, update) ==
    [f \in DOMAIN current |->
        IF f \in DOMAIN update THEN update[f] ELSE current[f]]

\* The bodies of PUT /api/tasks/{task_id} the callers send.
UpdateRequests ==
    {[name |-> "Task"],
     [enabled |-> FALSE],
     [enabled |-> TRUE],
     [task_function |-> "purge_database"],
     [trigger_type |-> "date"],
     [trigger_type |-> "interval"],
     [trigger_config |-> BadHour]}

\* task_management_api.py:72-83  GET /api/tasks/{task_id}
get_task_endpoint(st, id) ==
    IF get_task(st, id) = <<>>
    THEN Responded(Returned(st.jobs, st.configs, FALSE), ReRaised(404, TRUE), <<>>)
    ELSE Responded(Returned(st.jobs, st.configs, TRUE), 200, <<>>)

\* task_management_api.py:85-99  POST /api/tasks/
create_task(st, cfg) ==
    LET r == add_task(st, cfg)
    IN IF r.result THEN Responded(r, 200, <<>>)
       ELSE Responded(r, ReRaised(400, FALSE), <<>>)

\* task_management_api.py:101-130  PUT /api/tasks/{task_id}
update_task(st, id, update) ==
    IF get_task(st, id) = <<>>
    THEN Responded(Returned(st.jobs, st.configs, FALSE), ReRaised(404, TRUE), <<>>)
    ELSE IF id \notin DOMAIN st.configs
    THEN Responded(Returned(st.jobs, st.configs, FALSE), ReRaised(404, TRUE), <<>>)
    ELSE LET r == modify_task(st, id, Merge(st.configs[id], update))
         IN IF r.result THEN Responded(r, 200, <<>>)
            ELSE Responded(r, ReRaised(400, TRUE), <<>>)

\* task_management_api.py:132-142  DELETE /api/tasks/{task_id}
delete_task(st, id) ==
    LET r == remove_task(st, id)
    IN IF r.result THEN Responded(r, 200, <<>>)
       ELSE Responded(r, ReRaised(404, FALSE), <<>>)

\* task_management_api.py:144-154  POST /api/tasks/{task_id}/pause
pause_task_endpoint(st, id) ==
    LET r == pause_task(st, id)
    IN IF r.result THEN Responded(r, 200, <<>>)
       ELSE Responded(r, ReRaised(404, FALSE), <<>>)

\* task_management_api.py:156-166  POST /api/tasks/{task_id}/resume
resume_task_endpoint(st, id) ==
    LET r == resume_task(st, id)
    IN IF r.result THEN Responded(r, 200, <<>>)
       ELSE Responded(r, ReRaised(404, FALSE), <<>>)

\* Mutant: a paused task is not executed.
execute_task_now_SkipsPaused(st, id) ==
    IF get_task(st, id) = <<>>
    THEN Responded(Returned(st.jobs, st.configs, FALSE), ReRaised(404, TRUE), <<>>)
    ELSE IF id \notin DOMAIN st.configs
    THEN Responded(Returned(st.jobs, st.configs, FALSE), ReRaised(404, TRUE), <<>>)
    ELSE IF st.configs[id].task_function \notin available_tasks
    THEN Responded(Returned(st.jobs, st.configs, FALSE), ReRaised(400, TRUE), <<>>)
    ELSE Responded(Returned(st.jobs, st.configs, TRUE), 200,
                   IF st.configs[id].enabled
                   THEN <<execute_celery_task(st.configs[id].task_function,
                                              st.configs[id].args,
                                              st.configs[id].kwargs)>>
                   ELSE <<>>)

\* task_management_api.py:180-207  POST /api/tasks/{task_id}/execute
execute_task_now(st, id) ==
    IF get_task(st, id) = <<>>
    THEN Responded(Returned(st.jobs, st.configs, FALSE), ReRaised(404, TRUE), <<>>)
    ELSE IF id \notin DOMAIN st.configs
    THEN Responded(Returned(st.jobs, st.configs, FALSE), ReRaised(404, TRUE), <<>>)
    ELSE IF st.configs[id].task_function \notin available_tasks
    THEN Responded(Returned(st.jobs, st.configs, FALSE), ReRaised(400, TRUE), <<>>)
    ELSE Responded(Returned(st.jobs, st.configs, TRUE), 200,
                   <<execute_celery_task(st.configs[id].task_function,
                                         st.configs[id].args,
                                         st.configs[id].kwargs)>>)

NoCall ==
    [op |-> "none", id |-> "none", cfg |-> MonthlyDefault, result |-> FALSE,
     status |-> 0, delayed |-> <<>>, was_running |-> FALSE, update |-> <<>>]

InitSched ==
    /\ running = FALSE
    /\ jobs = <<>>
    /\ task_configs = <<>>
    /\ lastCall = NoCall
    /\ prevJobs = <<>>
    /\ prevConfigs = <<>>

Now == [jobs |-> jobs, configs |-> task_configs]

\* A method was called: the state it left, what it returned, what was before.
Called(op, id, cfg, r) ==
    /\ jobs' = r.jobs
    /\ task_configs' = r.configs
    /\ lastCall' = [op |-> op, id |-> id, cfg |-> cfg, result |-> r.result,
                    status |-> 0, delayed |-> <<>>, was_running |-> running,
                    update |-> <<>>]
    /\ prevJobs' = jobs
    /\ prevConfigs' = task_configs
    /\ UNCHANGED notSchedVars

\* An API request was answered, or a job fired: as Called, with the HTTP
\* status of the answer and the executions handed to the Celery queue.
AnsweredBody(op, id, cfg, r, body) ==
    /\ jobs' = r.jobs
    /\ task_configs' = r.configs
    /\ lastCall' = [op |-> op, id |-> id, cfg |-> cfg, result |-> r.result,
                    status |-> r.status, delayed |-> r.delayed,
                    was_running |-> running, update |-> body]
    /\ prevJobs' = jobs
    /\ prevConfigs' = task_configs
    /\ UNCHANGED notSchedVars

Answered(op, id, cfg, r) == AnsweredBody(op, id, cfg, r, <<>>)

\* Mutant: start() adds the default tasks whether or not the scheduler runs.
Start_AlwaysSeeds ==
    /\ running' = TRUE
    /\ Called("start", "none", MonthlyDefault,
              Returned(AddAll(Now, default_tasks).jobs,
                       AddAll(Now, default_tasks).configs, TRUE))

\* task_scheduler.py:76-83  start
Start ==
    /\ IF ~running
         THEN /\ running' = TRUE
              /\ Called("start", "none", MonthlyDefault,
                        Returned(AddAll(Now, default_tasks).jobs,
                                 AddAll(Now, default_tasks).configs, TRUE))
         ELSE /\ running' = running
              /\ Called("start", "none", MonthlyDefault,
                        Returned(jobs, task_configs, TRUE))

\* Mutant: shutdown stops the scheduler and leaves the job store as it is.
Shutdown_KeepsJobs ==
    /\ running' = FALSE
    /\ Called("shutdown", "none", MonthlyDefault, Returned(jobs, task_configs, TRUE))

\* task_scheduler.py:85-89  shutdown; MemoryJobStore.shutdown() drops the jobs
Shutdown ==
    /\ IF running
         THEN /\ running' = FALSE
              /\ Called("shutdown", "none", MonthlyDefault,
                        Returned(<<>>, task_configs, TRUE))
         ELSE /\ running' = running
              /\ Called("shutdown", "none", MonthlyDefault,
                        Returned(jobs, task_configs, TRUE))

AddTask ==
    /\ running
    /\ \E cfg \in SubmittedConfigs : Called("add_task", cfg.id, cfg, add_task(Now, cfg))
    /\ UNCHANGED running

RemoveTask ==
    /\ running
    /\ \E id \in TaskIds : Called("remove_task", id, MonthlyDefault, remove_task(Now, id))
    /\ UNCHANGED running

PauseTask ==
    /\ running
    /\ \E id \in TaskIds : Called("pause_task", id, MonthlyDefault, pause_task(Now, id))
    /\ UNCHANGED running

ResumeTask ==
    /\ running
    /\ \E id \in TaskIds : Called("resume_task", id, MonthlyDefault, resume_task(Now, id))
    /\ UNCHANGED running

ModifyTask ==
    /\ running
    /\ \E id \in TaskIds, cfg \in {c \in SubmittedConfigs : c.id = "custom"} :
          Called("modify_task", id, cfg, modify_task(Now, id, cfg))
    /\ UNCHANGED running

\* The scheduler's loop runs a due job: the job calls _execute_celery_task
\* with the arguments add_job stored (task_scheduler.py:132-139, 249-258).
\* Only a running scheduler processes jobs, and a paused job is never due.
JobRuns(id) ==
    /\ jobs[id].next_run_time = "scheduled"
    /\ jobs' = jobs
    /\ task_configs' = task_configs
    /\ lastCall' = [op |-> "fire", id |-> id, cfg |-> MonthlyDefault, result |-> TRUE,
                    status |-> 0,
                    delayed |-> <<execute_celery_task(jobs[id].func, jobs[id].args,
                                                     jobs[id].kwargs)>>,
                    was_running |-> running, update |-> <<>>]
    /\ prevJobs' = jobs
    /\ prevConfigs' = task_configs
    /\ running' = running

\* A due job runs; what becomes of the execution in the broker is left out.
Fire ==
    /\ running
    /\ \E id \in DOMAIN jobs : JobRuns(id)
    /\ UNCHANGED notSchedVars

\* The API serves requests between the application's startup and shutdown
\* events (main.py:103-112), that is while the scheduler runs.
GetTaskRequest ==
    /\ running
    /\ \E id \in TaskIds :
          Answered("GET /{task_id}", id, MonthlyDefault, get_task_endpoint(Now, id))
    /\ UNCHANGED running

CreateTaskRequest ==
    /\ running
    /\ \E cfg \in SubmittedConfigs :
          Answered("POST /", cfg.id, cfg, create_task(Now, cfg))
    /\ UNCHANGED running

UpdateTaskRequest ==
    /\ running
    /\ \E id \in TaskIds, update \in UpdateRequests :
          AnsweredBody("PUT /{task_id}", id,
                       IF id \in DOMAIN jobs /\ id \in DOMAIN task_configs
                           THEN Merge(task_configs[id], update)
                           ELSE MonthlyDefault,
                       update_task(Now, id, update), update)
    /\ UNCHANGED running

DeleteTaskRequest ==
    /\ running
    /\ \E id \in TaskIds :
          Answered("DELETE /{task_id}", id, MonthlyDefault, delete_task(Now, id))
    /\ UNCHANGED running

PauseTaskRequest ==
    /\ running
    /\ \E id \in TaskIds :
          Answered("POST /{task_id}/pause", id, MonthlyDefault,
                   pause_task_endpoint(Now, id))
    /\ UNCHANGED running

ResumeTaskRequest ==
    /\ running
    /\ \E id \in TaskIds :
          Answered("POST /{task_id}/resume", id, MonthlyDefault,
                   resume_task_endpoint(Now, id))
    /\ UNCHANGED running

ExecuteTaskNowRequest ==
    /\ running
    /\ \E id \in TaskIds :
          Answered("POST /{task_id}/execute", id, MonthlyDefault,
                   execute_task_now(Now, id))
    /\ UNCHANGED running

\* The scheduler driven by calls of its methods.
NextSched ==
    \/ Start \/ Shutdown \/ Fire
    \/ AddTask \/ RemoveTask \/ PauseTask \/ ResumeTask \/ ModifyTask

\* The scheduler driven through the management API.
NextApi ==
    \/ Start \/ Shutdown
    \/ GetTaskRequest \/ CreateTaskRequest \/ UpdateTaskRequest
    \/ DeleteTaskRequest \/ PauseTaskRequest \/ ResumeTaskRequest
    \/ ExecuteTaskNowRequest


(***************************************************************************)
(*            PART 3: the ingestion tasks and the CRUD layer               *)
(*                                                                         *)
(* schemas.py and models.py in the source tree are an older revision than  *)
(* crud.py, tasks.py and scripts/seed_from_csv.py, which read the columns  *)
(* background_image and clip and the schema GameUpdate.  Those two opaque  *)
(* columns are never read by a branch and are left out of the rows here;   *)
(* GameUpdate carries the four fields tasks.py:130-135 gives it.           *)
(***************************************************************************)

\* Longest list of records one fetch returns.
MaxRecords == 2

AttrKinds == <<"genres", "platforms", "stores", "tags">>

\* Attribute records as the catalogue sends them: {id, name, slug}.
Action        == [id |-> 4, name |-> "Action", slug |-> "action"]
RPG           == [id |-> 5, name |-> "RPG", slug |-> "role-playing-games-rpg"]
\* the genre with id 4 and slug "action" after the catalogue renamed it
ActionRenamed == [id |-> 4, name |-> "Action Games", slug |-> "action"]
PC            == [id |-> 4, name |-> "PC", slug |-> "pc"]
Steam         == [id |-> 1, name |-> "Steam", slug |-> "steam"]
Singleplayer  == [id |-> 31, name |-> "Singleplayer", slug |-> "singleplayer"]

\* Catalogue records, after the task unwrapped platforms[].platform and
\* stores[].store (tasks.py:75-88).  No record lists one attribute twice.
GameA ==
    [id |-> 1, slug |-> "a", name |-> "Game A", rating |-> 4, ratings_count |-> 100,
     metacritic |-> 90, playtime |-> 10,
     genres |-> <<Action>>, platforms |-> <<PC>>, stores |-> <<Steam>>,
     tags |-> <<Singleplayer>>]
\* the same game a week later: new numbers, another genre, no store
GameA2 ==
    [id |-> 1, slug |-> "a", name |-> "Game A", rating |-> 3, ratings_count |-> 200,
     metacritic |-> 85, playtime |-> 12,
     genres |-> <<RPG>>, platforms |-> <<PC>>, stores |-> <<>>,
     tags |-> <<Singleplayer>>]
\* another game that shares the genre Action with Game A
GameB ==
    [id |-> 2, slug |-> "b", name |-> "Game B", rating |-> 2, ratings_count |-> 7,
     metacritic |-> 60, playtime |-> 3,
     genres |-> <<Action, RPG>>, platforms |-> <<PC>>, stores |-> <<>>,
     tags |-> <<>>]
\* a game that carries the renamed genre
GameC ==
    [id |-> 3, slug |-> "c", name |-> "Game C", rating |-> 5, ratings_count |-> 1,
     metacritic |-> 70, playtime |-> 1,
     genres |-> <<RPG, ActionRenamed>>, platforms |-> <<>>, stores |-> <<>>,
     tags |-> <<>>]

Records == {GameA, GameA2, GameB, GameC}

\* Every list of at most MaxRecords records.
RECURSIVE SeqsUpTo(_, _)
SeqsUpTo(S, n) ==
    IF n = 0 THEN {<<>>}
    ELSE LET shorter == SeqsUpTo(S, n - 1)
         IN shorter \cup {Append(q, x) : q \in {t \in shorter : Len(t) = n - 1}, x \in S}

FetchResults == SeqsUpTo(Records, MaxRecords)

IngestionTasks == {"fetch_games_for_month_task", "fetch_weekly_updates_task"}

EmptyDb == [games |-> {}, attrs |-> {}, links |-> {}]

\* crud.py:72-83  the row create_game builds from a GameCreate
GameRow(rec) ==
    [id |-> rec.id, slug |-> rec.slug, name |-> rec.name, rating |-> rec.rating,
     ratings_count |-> rec.ratings_count, metacritic |-> rec.metacritic,
     playtime |-> rec.playtime]

AttrRow(kind, a) == [kind |-> kind, id |-> a.id, name |-> a.name, slug |-> a.slug]

\* Mutant: the games table has its primary key and no unique index on slug.
GameInsertConflicts_PrimaryKeyOnly(d, row) ==
    \E g \in d.games : g.id = row.id

\* models.py:61-62  games.id is the primary key, games.slug is unique
GameInsertConflicts(d, row) ==
    \E g \in d.games : g.id = row.id \/ g.slug = row.slug

\* models.py:86-113  id is the primary key, name and slug are unique, per table
AttrInsertConflicts(d, row) ==
    \E r \in d.attrs :
        r.kind = row.kind /\ (r.id = row.id \/ r.name = row.name \/ r.slug = row.slug)

\* crud.py:23-27  db.query(Game).filter(Game.slug == slug).first()
get_game_by_slug(d, slug) == {g \in d.games : g.slug = slug}

\* A session: the committed rows it sees, what it has pending in its open
\* transaction (the flushed game row, appended links), and whether a flush
\* raised IntegrityError.
NewSession(d) == [db |-> d, pendGames |-> {}, pendLinks |-> {}, raised |-> FALSE]

\* db.commit(): flush the pending rows and the rows in newAttrs, then commit.
\* A constraint violation raises IntegrityError and rolls the whole open
\* transaction back.
Commit(s, newAttrs) ==
    IF \E row \in newAttrs : AttrInsertConflicts(s.db, row)
    THEN [db |-> s.db, pendGames |-> {}, pendLinks |-> {}, raised |-> TRUE]
    ELSE [db |-> [games |-> s.db.games \cup s.pendGames,
                  attrs |-> s.db.attrs \cup newAttrs,
                  links |-> s.db.links \cup s.pendLinks],
          pendGames |-> {}, pendLinks |-> {}, raised |-> FALSE]

\* crud.py:8-20  filter_by(id=, name=, slug=).first(), else add and commit
get_or_create(s, kind, a) ==
    IF \E r \in s.db.attrs : r = AttrRow(kind, a)
    THEN s
    ELSE Commit(s, {AttrRow(kind, a)})

\* The (kind, attribute) pairs of a record in the order create_game walks
\* them: genres, platforms, stores, tags (crud.py:90-104).
Items(rec) ==
    [j \in 1..Len(rec.genres) |-> [kind |-> "genres", a |-> rec.genres[j]]]
    \o [j \in 1..Len(rec.platforms) |-> [kind |-> "platforms", a |-> rec.platforms[j]]]
    \o [j \in 1..Len(rec.stores) |-> [kind |-> "stores", a |-> rec.stores[j]]]
    \o [j \in 1..Len(rec.tags) |-> [kind |-> "tags", a |-> rec.tags[j]]]

LinkRow(kind, gid, aid) == [kind |-> kind, game_id |-> gid, attr_id |-> aid]

\* crud.py:90-104  the four loops: get_or_create, then append to the relationship
RECURSIVE LinkAll(_, _, _)
LinkAll(s, gid, items) ==
    IF items = <<>> THEN s
    ELSE LET it == Head(items)
             s1 == get_or_create(s, it.kind, it.a)
         IN IF s1.raised THEN s1
            ELSE LinkAll([s1 EXCEPT !.pendLinks = @ \cup {LinkRow(it.kind, gid, it.a.id)}],
                         gid, Tail(items))

\* crud.py:68-108  create_game: add and flush the game row, link the
\* attributes, commit.  Returns the committed rows afterwards and whether
\* the call raised.
create_game(d, rec) ==
    IF GameInsertConflicts(d, GameRow(rec))
    THEN [db |-> d, raised |-> TRUE]
    ELSE LET s0 == [NewSession(d) EXCEPT !.pendGames = {GameRow(rec)}]
             s1 == LinkAll(s0, rec.id, Items(rec))
             s2 == IF s1.raised THEN s1 ELSE Commit(s1, {})
         IN [db |-> s2.db, raised |-> s2.raised]

\* crud.py:252  def update_game(db, db_game, game_update)
update_game_params == <<"db", "db_game", "game_update">>
\* tasks.py:136  crud.update_game(db, game_id=existing_game.id, game=game_update)
update_game_call == [positional |-> 1, keywords |-> {"game_id", "game"}]

\* Python's argument binding: positional arguments fill the first
\* parameters, every keyword must name one of the others, and no parameter
\* (none has a default here) may stay unbound.  Otherwise TypeError.
CallBinds(params, call) ==
    LET rest == {params[j] : j \in (call.positional + 1)..Len(params)}
    IN /\ call.positional <= Len(params)
       /\ call.keywords \subseteq rest
       /\ rest \subseteq call.keywords

NoStep == [task |-> "none", rec |-> GameA, existed |-> FALSE, branch |-> "none",
           raised |-> FALSE, before |-> EmptyDb]

InitIngest ==
    /\ db = EmptyDb
    /\ task = "none"
    /\ games_data = <<>>
    /\ tpc = "idle"
    /\ cursor = 1
    /\ games_created = 0
    /\ games_updated = 0
    /\ sessionOpen = FALSE
    /\ rerun = FALSE
    /\ gamesAfterPrev = {}
    /\ lastStep = NoStep

TaskOver == tpc \in {"idle", "success", "failed"}

\* The task up to its loop (tasks.py:64-70, 118-125): the fetch has returned
\* data, the counters are zero, the session is open.
BeginRun(t, data) ==
    /\ task' = t
    /\ games_data' = data
    /\ tpc' = "loop"
    /\ cursor' = 1
    /\ games_created' = 0
    /\ games_updated' = 0
    /\ sessionOpen' = TRUE
    /\ gamesAfterPrev' = db.games
    /\ lastStep' = NoStep
    /\ UNCHANGED db

\* A worker starts an ingestion task; the catalogue answers with some data.
StartTask ==
    /\ TaskOver
    /\ \E t \in IngestionTasks, data \in FetchResults : BeginRun(t, data)
    /\ rerun' = FALSE
    /\ UNCHANGED notIngestVars

\* The same task runs again and the catalogue returns the same records.
RerunTask ==
    /\ tpc \in {"success", "failed"}
    /\ BeginRun(task, games_data)
    /\ rerun' = TRUE
    /\ UNCHANGED notIngestVars

\* Mutant: the month task writes the fetched numbers over a stored game.
MonthIteration_Upserts(d, rec) ==
    IF get_game_by_slug(d, rec.slug) = {}
    THEN LET r == create_game(d, rec)
         IN [db |-> r.db, raised |-> r.raised, branch |-> "create",
             created |-> IF r.raised THEN 0 ELSE 1, updated |-> 0]
    ELSE [db |-> [d EXCEPT !.games =
                     {g \in d.games : g.slug # rec.slug} \cup {GameRow(rec)}],
          raised |-> FALSE, branch |-> "skip", created |-> 0, updated |-> 0]

\* The result of one loop iteration: the rows afterwards, the counters, and
\* whether an exception left the loop.
\* tasks.py:72-93  month task: create when the slug is absent, else leave alone
MonthIteration(d, rec) ==
    IF get_game_by_slug(d, rec.slug) = {}
    THEN LET r == create_game(d, rec)
         IN [db |-> r.db, raised |-> r.raised, branch |-> "create",
             created |-> IF r.raised THEN 0 ELSE 1, updated |-> 0]
    ELSE [db |-> d, raised |-> FALSE, branch |-> "skip", created |-> 0, updated |-> 0]

\* tasks.py:127-156  weekly task: update when the slug is present, else create
WeeklyIteration(d, rec) ==
    IF get_game_by_slug(d, rec.slug) # {}
    THEN IF CallBinds(update_game_params, update_game_call)
         THEN [db |-> d, raised |-> FALSE, branch |-> "update", created |-> 0,
               updated |-> 1]
         ELSE [db |-> d, raised |-> TRUE, branch |-> "update", created |-> 0,
               updated |-> 0]
    ELSE LET r == create_game(d, rec)
         IN [db |-> r.db, raised |-> r.raised, branch |-> "create",
             created |-> IF r.raised THEN 0 ELSE 1, updated |-> 0]

\* Mutant: an exception of one record is swallowed and the loop goes on.
Iterate_ContinuesPastError(it) ==
    /\ db' = it.db
    /\ games_created' = games_created + it.created
    /\ games_updated' = games_updated + it.updated
    /\ lastStep' = [task |-> task, rec |-> games_data[cursor],
                    existed |-> get_game_by_slug(db, games_data[cursor].slug) # {},
                    branch |-> it.branch, raised |-> it.raised, before |-> db]
    /\ tpc' = "loop" /\ sessionOpen' = TRUE /\ cursor' = cursor + 1
    /\ UNCHANGED <<task, games_data, rerun, gamesAfterPrev>>

\* One iteration of the task's  for game_data in games_data  loop.  An
\* exception leaves the loop, runs  finally: db.close()  and fails the task.
Iterate(it) ==
    /\ db' = it.db
    /\ games_created' = games_created + it.created
    /\ games_updated' = games_updated + it.updated
    /\ lastStep' = [task |-> task, rec |-> games_data[cursor],
                    existed |-> get_game_by_slug(db, games_data[cursor].slug) # {},
                    branch |-> it.branch, raised |-> it.raised, before |-> db]
    /\ IF it.raised
         THEN tpc' = "failed" /\ sessionOpen' = FALSE /\ cursor' = cursor
         ELSE tpc' = "loop" /\ sessionOpen' = TRUE /\ cursor' = cursor + 1
    /\ UNCHANGED <<task, games_data, rerun, gamesAfterPrev>>

MonthStep ==
    /\ tpc = "loop"
    /\ task = "fetch_games_for_month_task"
    /\ cursor <= Len(games_data)
    /\ Iterate(MonthIteration(db, games_data[cursor]))
    /\ UNCHANGED notIngestVars

WeeklyStep ==
    /\ tpc = "loop"
    /\ task = "fetch_weekly_updates_task"
    /\ cursor <= Len(games_data)
    /\ Iterate(WeeklyIteration(db, games_data[cursor]))
    /\ UNCHANGED notIngestVars

\* The loop is through: finally: db.close(), then the result dict
\* (tasks.py:94-104, 157-166).
FinishTask ==
    /\ tpc = "loop"
    /\ cursor > Len(games_data)
    /\ tpc' = "success"
    /\ sessionOpen' = FALSE
    /\ UNCHANGED <<db, task, games_data, cursor, games_created, games_updated, rerun,
                   gamesAfterPrev, lastStep>>
    /\ UNCHANGED notIngestVars

NextIngest == StartTask \/ RerunTask \/ MonthStep \/ WeeklyStep \/ FinishTask

(***************************************************************************)
(*                 PART 4: the monthly rollup task                         *)
(***************************************************************************)

\* The years the current date is drawn from.
FirstYear == 2023
LastYear == 2024

IsLeapYear(y) == (y % 4 = 0 /\ y % 100 # 0) \/ y % 400 = 0

DaysInMonth(y, m) ==
    IF m = 2 THEN (IF IsLeapYear(y) THEN 29 ELSE 28)
    ELSE IF m \in {4, 6, 9, 11} THEN 30
    ELSE 31

Dates ==
    {[year |-> y, month |-> m, day |-> d] :
        y \in FirstYear..LastYear, m \in 1..12, d \in 1..31}
    \ {dt \in [year : FirstYear..LastYear, month : 1..12, day : 1..31] :
          dt.day > DaysInMonth(dt.year, dt.month)}

\* datetime.replace(day=d)
replace_day(dt, d) == [dt EXCEPT !.day = d]

\* dt - timedelta(days=1)
minus_one_day(dt) ==
    IF dt.day > 1 THEN [dt EXCEPT !.day = dt.day - 1]
    ELSE IF dt.month > 1
        THEN [year |-> dt.year, month |-> dt.month - 1,
              day |-> DaysInMonth(dt.year, dt.month - 1)]
    ELSE [year |-> dt.year - 1, month |-> 12, day |-> 31]

\* Mutant: one day before now, the day is not set to the first of the month.
previous_month_FromToday(now) == minus_one_day(now)

\* tasks.py:111  previous_month
previous_month(now) == minus_one_day(replace_day(now, 1))

NoRun == [ran |-> FALSE, on |-> [year |-> 0, month |-> 0, day |-> 0], calls |-> <<>>]

InitMonthly ==
    /\ today \in Dates
    /\ monthly_run = NoRun

InitMonthlyIdle ==
    /\ today = [year |-> FirstYear, month |-> 1, day |-> 1]
    /\ monthly_run = NoRun

\* tasks.py:108-112  fetch_monthly_updates_task
RunMonthlyUpdates ==
    /\ monthly_run' =
          [ran |-> TRUE, on |-> today,
           calls |-> <<[year |-> previous_month(today).year,
                        month |-> previous_month(today).month]>>]
    /\ UNCHANGED today
    /\ UNCHANGED notMonthlyVars

NextMonthly == RunMonthlyUpdates

(***************************************************************************)
(*                        PART 5: favorites                                *)
(*                                                                         *)
(* models.py of this revision does not declare User.favorite_games, and    *)
(* main.py has no DELETE route for favorites, although crud.py, admin.py,  *)
(* schemas.py, the migration and the tests use them.  The relationship is  *)
(* a many-to-many list over the table user_favorite_games, whose primary   *)
(* key is (user_id, game_id).                                              *)
(***************************************************************************)

\* Rows of users and games the requests refer to; user 3 and game 3 are not
\* stored.
UserIds == {1, 2}
RequestedUserIds == {1, 2, 3}
StoredGameIds == {1, 2}
RequestedGameIds == {1, 2, 3}

RECURSIVE SortedSeq(_)
SortedSeq(S) ==
    IF S = {} THEN <<>>
    ELSE LET m == CHOOSE x \in S : \A y \in S : x <= y
         IN <<m>> \o SortedSeq(S \ {m})

Elements(seq) == {seq[k] : k \in 1..Len(seq)}

Count(seq, x) == Cardinality({k \in 1..Len(seq) : seq[k] = x})

\* user.favorite_games: the relationship's list, loaded from the table
favorite_games(tbl, user) ==
    SortedSeq({row[2] : row \in {r \in tbl : r[1] = user}})

\* The flush of a changed list: rows for the members the loaded list did not
\* have are inserted, rows of the members it lost are deleted.
Flush(tbl, user, loaded, current) ==
    (tbl \ {<<user, g>> : g \in Elements(loaded) \ Elements(current)})
    \cup {<<user, g>> : g \in Elements(current) \ Elements(loaded)}

FavResult(tbl, list, raised) == [table |-> tbl, favorite_games |-> list, raised |-> raised]

\* Mutant: the list is changed and never committed.
add_favorite_game_NoCommit(tbl, user, game) ==
    FavResult(tbl, Append(favorite_games(tbl, user), game), FALSE)

\* crud.py:143-150  add_favorite_game
add_favorite_game(tbl, user, game) ==
    LET loaded == favorite_games(tbl, user)
        committed == Flush(tbl, user, loaded, Append(loaded, game))
    IN FavResult(committed, favorite_games(committed, user), FALSE)

\* crud.py:153-160  remove_favorite_game; list.remove raises ValueError for
\* a game that is not in the list
remove_favorite_game(tbl, user, game) ==
    LET loaded == favorite_games(tbl, user)
    IN IF game \notin Elements(loaded)
       THEN FavResult(tbl, loaded, TRUE)
       ELSE LET committed ==
                    Flush(tbl, user, loaded,
                          SelectSeq(loaded, LAMBDA g : g # game))
            IN FavResult(committed, favorite_games(committed, user), FALSE)

\* crud.py:163-167  get_favorite_games
get_favorite_games(tbl, user) == favorite_games(tbl, user)

NoFav ==
    [op |-> "none", user |-> 0, game |-> 0, status |-> 0, body |-> <<>>,
     before |-> {}]

InitFav ==
    /\ favorites = {}
    /\ lastFav = NoFav

FavAnswered(op, user, game, status, body, tbl) ==
    /\ favorites' = tbl
    /\ lastFav' = [op |-> op, user |-> user, game |-> game, status |-> status,
                   body |-> body, before |-> favorites]
    /\ UNCHANGED notFavVars

\* main.py:249-270  POST /users/{user_id}/favorites/{game_id}
AddFavoriteRequest ==
    \E current_user \in UserIds, user_id \in UserIds, game_id \in RequestedGameIds :
        IF current_user # user_id
        THEN FavAnswered("add", user_id, game_id, 403, <<>>, favorites)
        ELSE IF game_id \notin StoredGameIds
        THEN FavAnswered("add", user_id, game_id, 404, <<>>, favorites)
        ELSE LET r == add_favorite_game(favorites, current_user, game_id)
             IN FavAnswered("add", user_id, game_id, 200, r.favorite_games, r.table)

\* DELETE /users/{user_id}/favorites/{game_id}
RemoveFavoriteRequest ==
    \E current_user \in UserIds, user_id \in UserIds, game_id \in RequestedGameIds :
        IF current_user # user_id
        THEN FavAnswered("remove", user_id, game_id, 403, <<>>, favorites)
        ELSE IF game_id \notin StoredGameIds
        THEN FavAnswered("remove", user_id, game_id, 404, <<>>, favorites)
        ELSE LET r == remove_favorite_game(favorites, current_user, game_id)
             IN IF r.raised
                THEN FavAnswered("remove", user_id, game_id, 500, <<>>, r.table)
                ELSE FavAnswered("remove", user_id, game_id, 200,
                                 r.favorite_games, r.table)

\* main.py:272-278  GET /api/users/{user_id}/favorites
ListFavoritesRequest ==
    \E user_id \in RequestedUserIds :
        IF user_id \notin UserIds
        THEN FavAnswered("list", user_id, 0, 404, <<>>, favorites)
        ELSE FavAnswered("list", user_id, 0, 200,
                         get_favorite_games(favorites, user_id), favorites)

NextFav == AddFavoriteRequest \/ RemoveFavoriteRequest \/ ListFavoritesRequest

(***************************************************************************)
(* PART 6.  The scheduler with the Celery broker's queue                   *)
(*                                                                         *)
(* _execute_celery_task calls task_func.delay(), which puts a message on   *)
(* the broker's queue; a worker process takes the messages off the queue.  *)
(* The scheduler holds no reference to a message once it is sent.          *)
(***************************************************************************)

\* How many messages the queue holds at most in the model.
MaxQueue == 2

InitBroker == queue = <<>>

\* A due job runs and its execution is put on the queue
\* (task_scheduler.py:132-139, 249-258).
Dispatch ==
    /\ running
    /\ Len(queue) < MaxQueue
    /\ \E id \in DOMAIN jobs :
          /\ JobRuns(id)
          /\ queue' = Append(queue, [job |-> id,
                                     call |-> execute_celery_task(jobs[id].func,
                                                                  jobs[id].args,
                                                                  jobs[id].kwargs)])
    /\ UNCHANGED <<fetchVars, ingestVars, monthlyVars, favVars, raceVars>>

\* A Celery worker takes the oldest message off the queue and runs it.
WorkerTakes ==
    /\ queue # <<>>
    /\ queue' = Tail(queue)
    /\ UNCHANGED <<fetchVars, ingestVars, schedVars, monthlyVars, favVars, raceVars>>

NextBroker ==
    \/ Start \/ Shutdown \/ PauseTask \/ ResumeTask
    \/ Dispatch \/ WorkerTakes

(***************************************************************************)
(* PART 7.  Two ingestion tasks at once                                    *)
(*                                                                         *)
(* Two Celery workers run the loop of fetch_games_for_month_task, each     *)
(* with its own session, on records of the same slug.  One iteration is    *)
(* three steps: the check get_game_by_slug, the INSERT that create_game's  *)
(* db.flush() sends inside the open transaction, and the rest of           *)
(* create_game up to its commit.  The database lets an INSERT whose key is *)
(* held by another open transaction wait until that transaction ends.      *)
(***************************************************************************)

RaceWorkers == {"worker1", "worker2"}

\* the game with slug "a" under another catalogue id
GameAReissued == [GameA2 EXCEPT !.id = 7]

RaceRecords == {GameA, GameA2, GameAReissued}

Resting == {"start", "skipped", "done", "failed"}

InitRace ==
    workers = [w \in RaceWorkers |->
                  [pc |-> "start", rec |-> GameA, raced |-> FALSE, pending |-> FALSE]]

\* The rows other workers have inserted in transactions that are still open.
PendingOfOthers(w) ==
    [EmptyDb EXCEPT !.games =
        {GameRow(workers[o].rec) : o \in {x \in RaceWorkers : x # w /\ workers[x].pending}}]

RaceFrame ==
    UNCHANGED <<fetchVars, schedVars, monthlyVars, favVars, brokerVars,
                task, games_data, tpc, cursor, games_created, games_updated,
                sessionOpen, rerun, gamesAfterPrev, lastStep>>

\* tasks.py:72  the loop reaches a record of the fetched page
RaceFetch ==
    /\ \E w \in RaceWorkers, rec \in RaceRecords :
          /\ workers[w].pc \in Resting
          /\ workers' = [workers EXCEPT
                            ![w] = [pc |-> "check", rec |-> rec, raced |-> FALSE,
                                    pending |-> FALSE]]
    /\ db' = db
    /\ RaceFrame

\* tasks.py:73-74  existing_game = crud.get_game_by_slug(db, slug)
RaceCheck ==
    /\ \E w \in RaceWorkers :
          /\ workers[w].pc = "check"
          /\ workers' = [workers EXCEPT
                ![w].pc = IF get_game_by_slug(db, workers[w].rec.slug) = {}
                              THEN "create" ELSE "skipped",
                ![w].raced = \E o \in RaceWorkers \ {w} :
                                 /\ workers[o].pc = "create"
                                 /\ workers[o].rec.slug = workers[w].rec.slug]
    /\ db' = db
    /\ RaceFrame

\* crud.py:86-87  db.add(db_game); db.flush()
RaceFlush ==
    /\ \E w \in RaceWorkers :
          /\ workers[w].pc = "create"
          /\ ~GameInsertConflicts(PendingOfOthers(w), GameRow(workers[w].rec))
          /\ workers' = [workers EXCEPT
                ![w].pc = IF GameInsertConflicts(db, GameRow(workers[w].rec))
                              THEN "failed" ELSE "link",
                ![w].pending = ~GameInsertConflicts(db, GameRow(workers[w].rec))]
    /\ db' = db
    /\ RaceFrame

\* crud.py:90-108  the attribute loops and db.commit()
RaceCommit ==
    /\ \E w \in RaceWorkers :
          /\ workers[w].pc = "link"
          /\ db' = create_game(db, workers[w].rec).db
          /\ workers' = [workers EXCEPT
                ![w].pc = IF create_game(db, workers[w].rec).raised
                              THEN "failed" ELSE "done",
                ![w].pending = FALSE]
    /\ RaceFrame

NextRace == RaceFetch \/ RaceCheck \/ RaceFlush \/ RaceCommit

(***************************************************************************)
(*                       The specifications                                *)
(***************************************************************************)

InitAtIngest ==
    InitFetchIdle /\ InitIngest /\ InitSched /\ InitMonthlyIdle /\ InitFav
    /\ InitBroker /\ InitRace

SpecIngest == InitAtIngest /\ [][NextIngest]_vars

InitAtFetch ==
    InitFetch /\ InitIngest /\ InitSched /\ InitMonthlyIdle /\ InitFav
    /\ InitBroker /\ InitRace

SpecFetch == InitAtFetch /\ [][NextFetch]_vars

InitAtSched ==
    InitFetchIdle /\ InitIngest /\ InitSched /\ InitMonthlyIdle /\ InitFav
    /\ InitBroker /\ InitRace

SpecSched == InitAtSched /\ [][NextSched]_vars

SpecApi == InitAtSched /\ [][NextApi]_vars

InitAtMonthly ==
    InitFetchIdle /\ InitIngest /\ InitSched /\ InitMonthly /\ InitFav
    /\ InitBroker /\ InitRace

SpecMonthly == InitAtMonthly /\ [][NextMonthly]_vars

InitAtFav ==
    InitFetchIdle /\ InitIngest /\ InitSched /\ InitMonthlyIdle /\ InitFav
    /\ InitBroker /\ InitRace

SpecFav == InitAtFav /\ [][NextFav]_vars

InitAtBroker ==
    InitFetchIdle /\ InitIngest /\ InitSched /\ InitMonthlyIdle /\ InitFav
    /\ InitBroker /\ InitRace

SpecBroker == InitAtBroker /\ [][NextBroker]_vars

InitAtRace ==
    InitFetchIdle /\ InitIngest /\ InitSched /\ InitMonthlyIdle /\ InitFav
    /\ InitBroker /\ InitRace

SpecRace == InitAtRace /\ [][NextRace]_vars

(***************************************************************************)
(* Claims about the catalogue client, checked under SpecFetch              *)
(***************************************************************************)

\* The results of pages 1..n of the catalogue, in page order.
RECURSIVE ConcatPages(_)
ConcatPages(n) == IF n = 0 THEN <<>> ELSE ConcatPages(n - 1) \o PageData(n).results

\* The page the latest GET asked for, and whether the request for it is over.
LatestPage == Last(getLog)
LatestRequestOver == fpc = "returned" \/ params_page # LatestPage

\* Failures the spec calls transient: a network error or a 5xx status.
TransientKinds == {NetworkError, BadGateway, ServerError}

\* C4: given k pages of which every page but the last carries a next marker
\* and a transport that answers every request, the fetch requests pages
\* 1, 2, ..., k in that order, never requests anything after page k, and
\* returns the concatenation of the k pages' results, each page once.
C4_PaginationWalksAllPagesOnce ==
    (fault.page = 0 /\ ~catalog.overrun) =>
        /\ Len(getLog) <= catalog.k
        /\ \A j \in 1..Len(getLog) : getLog[j] = j
        /\ fpc = "returned" =>
             /\ Len(getLog) = catalog.k
             /\ all_games = ConcatPages(catalog.k)

C4_Witness ==
    /\ fpc = "returned"
    /\ fault.page = 0
    /\ ~catalog.overrun
    /\ catalog.k >= 2
    /\ catalog.size >= 1

\* C5: when the transport fails transiently N < retries times for a page
\* request and then succeeds, make_request returns the successful response
\* and has issued exactly N + 1 GET calls for that request.
C5_RetryThenSuccess ==
    ( /\ getLog # <<>>
      /\ fault.page = LatestPage
      /\ LatestPage <= catalog.k
      /\ fault.kind \in TransientKinds
      /\ fault.fails < retries
      /\ LatestRequestOver ) =>
        /\ response = "response"
        /\ Len(attempts) = fault.fails + 1
        /\ Last(attempts).status = 200
        /\ \A j \in 1..fault.fails : attempts[j].exc # "none"

C5_Witness ==
    /\ getLog # <<>>
    /\ fault.page = LatestPage
    /\ fault.kind \in TransientKinds
    /\ fault.fails = retries - 1
    /\ LatestRequestOver
    /\ response = "response"

\* C6: when every attempt for a page request fails, make_request issues at
\* most retries (5) GET calls for it and then returns None; nothing is raised
\* and the fetch returns exactly the results of the pages before that page.
C6_ExhaustedRetriesGivePartialResult ==
    ( /\ getLog # <<>>
      /\ fault.page = LatestPage
      /\ fault.fails = retries
      /\ fault.kind # NotFound ) =>
        /\ Len(attempts) <= retries
        /\ Cardinality({j \in 1..Len(getLog) : getLog[j] = LatestPage}) <= retries
        /\ fpc # "raised"
        /\ Len(attempts) < retries => fpc = "request"
        /\ Len(attempts) = retries =>
             /\ fpc = "returned"
             /\ response = "None"
             /\ all_games = ConcatPages(LatestPage - 1)

C6_Witness ==
    /\ fpc = "returned"
    /\ response = "None"
    /\ fault.fails = retries
    /\ fault.kind # NotFound
    /\ fault.page = LatestPage
    /\ Len(attempts) = retries
    /\ Len(all_games) >= 1

\* C7: a 404 answer ends the pagination: make_request returns None at once
\* (the 404 is the last GET of the fetch and no backoff wait follows it), and
\* the fetch returns what it accumulated from the pages before, not an error.
C7_NotFoundEndsPagination ==
    (attempts # <<>> /\ Last(attempts).status = 404) =>
        /\ fpc = "returned"
        /\ response = "None"
        /\ Last(attempts).slept = 0
        /\ all_games = ConcatPages(LatestPage - 1)

C7_Witness ==
    /\ attempts # <<>>
    /\ Last(attempts).status = 404
    /\ fpc = "returned"
    /\ Len(all_games) >= 1

\* C8: after an HTTP client-error status other than 404 (400, 401, 403, 429)
\* make_request stops: the GET that got that status is the last GET of the
\* request.
C8_ClientErrorStopsRequest ==
    \A j \in 1..Len(attempts) :
        ( /\ attempts[j].exc = "HTTPStatusError"
          /\ attempts[j].status \in 400..499
          /\ attempts[j].status # 404 ) =>
            /\ j = Len(attempts)
            /\ fpc = "returned"

\* C9: without the catalogue credential both fetch functions raise before
\* any HTTP request is issued.
C9_NoCredentialNoRequest ==
    ~API_KEY =>
        /\ getLog = <<>>
        /\ fpc \in {"idle", "raised"}

C9_Witness ==
    /\ ~API_KEY
    /\ fpc = "raised"
    /\ fn = "fetch_recently_updated_games"

(***************************************************************************)
(* Claims about the ingestion tasks, checked under SpecIngest              *)
(***************************************************************************)

SlugsUnique(games) == \A g1, g2 \in games : g1.slug = g2.slug => g1 = g2

\* C1: when fetch_games_for_month_task runs a second time and the catalogue
\* returns the same records as the first time, the second run creates no
\* game, the games table keeps exactly the rows the first run left, and no
\* slug is in two rows.
C1_SecondRunCreatesNothing ==
    (rerun /\ task = "fetch_games_for_month_task") =>
        /\ games_created = 0
        /\ db.games = gamesAfterPrev
        /\ SlugsUnique(db.games)

\* C2 (the half about a slug that is present): when fetch_weekly_updates_task
\* processes a record whose slug already has a Game row, it updates rating,
\* ratings_count, metacritic and playtime of that row to the fetched values
\* and creates no row.
C2_ExistingSlugIsUpdated ==
    (lastStep.task = "fetch_weekly_updates_task" /\ lastStep.existed) =>
        /\ ~lastStep.raised
        /\ Cardinality(db.games) = Cardinality(lastStep.before.games)
        /\ \E g \in db.games :
             /\ g.slug = lastStep.rec.slug
             /\ g.rating = lastStep.rec.rating
             /\ g.ratings_count = lastStep.rec.ratings_count
             /\ g.metacritic = lastStep.rec.metacritic
             /\ g.playtime = lastStep.rec.playtime

\* C3: when create_game links a game to an attribute and a row of that
\* table with the same id or the same slug already exists, that row is
\* linked to the game and stays the only row with that id or slug.
C3_ExistingAttributeIsReused ==
    lastStep.branch = "create" =>
        \A j \in 1..Len(Items(lastStep.rec)) :
            LET it == Items(lastStep.rec)[j]
                same(r) == r.kind = it.kind /\ (r.id = it.a.id \/ r.slug = it.a.slug)
            IN \A r \in lastStep.before.attrs :
                   same(r) =>
                       /\ LinkRow(it.kind, lastStep.rec.id, r.id) \in db.links
                       /\ {q \in db.attrs : same(q)} = {r}

(***************************************************************************)
(* Claims about the scheduler, checked under SpecSched                     *)
(***************************************************************************)

\* A configuration add_task must refuse: its function is not registered, its
\* trigger kind is neither interval nor cron, or the trigger constructor
\* rejects its parameters.
Refusable(cfg) ==
    \/ cfg.task_function \notin available_tasks
    \/ cfg.trigger_type \notin {"interval", "cron"}
    \/ /\ cfg.trigger_type = "interval"
       /\ ~(cfg.trigger_config.keys \subseteq IntervalTriggerParams
            /\ cfg.trigger_config.well_formed)
    \/ /\ cfg.trigger_type = "cron"
       /\ ~(cfg.trigger_config.keys \subseteq CronTriggerParams
            /\ cfg.trigger_config.well_formed)

\* C10: add_task with an unregistered function, an unsupported trigger kind
\* or trigger parameters the constructor rejects returns False, and the job
\* store and task_configs are what they were before the call.
C10_RefusedAddTaskChangesNothing ==
    (lastCall.op = "add_task" /\ Refusable(lastCall.cfg)) =>
        /\ lastCall.result = FALSE
        /\ jobs = prevJobs
        /\ task_configs = prevConfigs

C10_Witness ==
    /\ lastCall.op = "add_task"
    /\ lastCall.cfg.trigger_type = "interval"
    /\ lastCall.cfg.trigger_config = FirstOfMonth
    /\ lastCall.cfg.id \in DOMAIN prevJobs
    /\ lastCall.result = FALSE

\* What get_tasks() lists for the task id, as a set of zero or one entry.
Listed(id) == {t \in get_tasks(Now) : t.id = id}

\* C11: for every task that has a job and a stored configuration, the stored
\* enabled flag is true exactly when the job has a next fire time; a task
\* added with enabled = false is paused at once; after a pause the listing
\* shows the task disabled with no next fire time, after a resume it shows
\* the task enabled with a next fire time.
C11_EnabledFlagFollowsJobState ==
    /\ \A id \in DOMAIN jobs \cap DOMAIN task_configs :
          task_configs[id].enabled <=> (jobs[id].next_run_time # "none")
    /\ (lastCall.op = "add_task" /\ lastCall.result /\ ~lastCall.cfg.enabled) =>
          /\ jobs[lastCall.id].next_run_time = "none"
          /\ ~task_configs[lastCall.id].enabled
    /\ (lastCall.op = "pause_task" /\ lastCall.result) =>
          /\ Listed(lastCall.id) # {}
          /\ \A t \in Listed(lastCall.id) : ~t.enabled /\ t.next_run_time = "none"
    /\ (lastCall.op = "resume_task" /\ lastCall.result) =>
          /\ Listed(lastCall.id) # {}
          /\ \A t \in Listed(lastCall.id) : t.enabled /\ t.next_run_time # "none"

C11_Witness ==
    /\ lastCall.op = "resume_task"
    /\ lastCall.result
    /\ lastCall.id \in DOMAIN prevJobs
    /\ prevJobs[lastCall.id].next_run_time = "none"
    /\ ~prevConfigs[lastCall.id].enabled

\* C12: remove_task on a present id returns True, unregisters the job and
\* deletes the stored configuration, so that neither get_tasks() nor
\* get_task() shows the id, and touches no other task; on an absent id it
\* returns False and changes nothing.
C12_RemoveTaskRemovesOrRefuses ==
    lastCall.op = "remove_task" =>
        IF lastCall.id \in DOMAIN prevJobs
        THEN /\ lastCall.result
             /\ jobs = Drop(prevJobs, lastCall.id)
             /\ task_configs = Drop(prevConfigs, lastCall.id)
             /\ Listed(lastCall.id) = {}
             /\ get_task(Now, lastCall.id) = <<>>
        ELSE /\ ~lastCall.result
             /\ jobs = prevJobs
             /\ task_configs = prevConfigs

C12_Witness ==
    /\ lastCall.op = "remove_task"
    /\ lastCall.result
    /\ lastCall.id \in DOMAIN prevJobs
    /\ lastCall.id \in DOMAIN prevConfigs
    /\ DOMAIN jobs # {}

\* C13: modify_task(id, new_config) leaves new_config registered under id
\* when add_task accepts it; when add_task refuses it, modify_task returns
\* False and the id has no job any more, and the configuration removed with
\* the job is not put back.
C13_FailedModifyLeavesTaskRemoved ==
    lastCall.op = "modify_task" =>
        IF Refusable(lastCall.cfg)
        THEN /\ ~lastCall.result
             /\ lastCall.id \notin DOMAIN jobs
             /\ get_task(Now, lastCall.id) = <<>>
             /\ lastCall.id \in DOMAIN prevJobs => lastCall.id \notin DOMAIN task_configs
             /\ \A other \in DOMAIN prevJobs \ {lastCall.id} :
                   other \in DOMAIN jobs /\ jobs[other] = prevJobs[other]
        ELSE /\ lastCall.result
             /\ lastCall.id \in DOMAIN jobs
             /\ task_configs[lastCall.id] = [lastCall.cfg EXCEPT !.id = lastCall.id]
             /\ jobs[lastCall.id].func = lastCall.cfg.task_function
             /\ jobs[lastCall.id].trigger.type = lastCall.cfg.trigger_type
             /\ jobs[lastCall.id].trigger.config = lastCall.cfg.trigger_config

C13_Witness ==
    /\ lastCall.op = "modify_task"
    /\ Refusable(lastCall.cfg)
    /\ lastCall.id \in DOMAIN prevJobs
    /\ lastCall.id \in DOMAIN prevConfigs
    /\ lastCall.id \notin DOMAIN jobs

\* C18: a job fires only on a running scheduler and a scheduler that does
\* not run holds no job; start() on a scheduler that does not run leaves it
\* running with the default tasks monthly_updates and weekly_updates
\* registered and enabled; after shutdown() the scheduler does not run and
\* its job store is empty.
C18_LifecycleOfTheScheduler ==
    /\ lastCall.op = "fire" => lastCall.was_running /\ lastCall.id \in DOMAIN prevJobs
    /\ ~running => jobs = <<>>
    /\ (lastCall.op = "start" /\ ~lastCall.was_running) =>
          /\ running
          /\ \A id \in {"monthly_updates", "weekly_updates"} :
                /\ id \in DOMAIN jobs
                /\ jobs[id].next_run_time # "none"
                /\ id \in DOMAIN task_configs
                /\ task_configs[id].enabled
          /\ task_configs["monthly_updates"] = MonthlyDefault
          /\ task_configs["weekly_updates"] = WeeklyDefault
    /\ lastCall.op = "shutdown" => ~running /\ jobs = <<>>

C18_Witness ==
    /\ lastCall.op = "shutdown"
    /\ lastCall.was_running
    /\ DOMAIN prevJobs = TaskIds
    /\ ~running

(***************************************************************************)
(* Claims about the management API, checked under SpecApi                  *)
(***************************************************************************)

\* C14: a create-task or update-task request whose configuration names an
\* unregistered function, an unsupported trigger kind or trigger parameters
\* the constructor rejects is answered with a 4xx status.
C14_InvalidConfigurationIsAnswered4xx ==
    (lastCall.op \in {"POST /", "PUT /{task_id}"} /\ Refusable(lastCall.cfg)) =>
        lastCall.status \in 400..499

\* C15: a create-task or update-task request refused for such a
\* configuration leaves the job store and the stored configurations as
\* they were before the request.
C15_RefusedRequestChangesNothing ==
    (lastCall.op \in {"POST /", "PUT /{task_id}"} /\ Refusable(lastCall.cfg)) =>
        /\ jobs = prevJobs
        /\ task_configs = prevConfigs

\* C16: a get, update, delete, pause, resume or execute-now request for a
\* task id the scheduler has no job for is answered with status 404.
C16_UnknownTaskIsAnswered404 ==
    (/\ lastCall.op \in {"GET /{task_id}", "PUT /{task_id}", "DELETE /{task_id}",
                         "POST /{task_id}/pause", "POST /{task_id}/resume",
                         "POST /{task_id}/execute"}
     /\ lastCall.id \notin DOMAIN prevJobs) =>
        lastCall.status = 404

\* C17: execute-now on a task that has a job and a stored configuration,
\* enabled or paused, hands exactly one execution to the queue, made of the
\* stored function, args and kwargs, and leaves the job (trigger, next fire
\* time) and the stored configuration (enabled flag included) as they were.
C17_ExecuteNowSubmitsOnceAndKeepsSchedule ==
    (/\ lastCall.op = "POST /{task_id}/execute"
     /\ lastCall.id \in DOMAIN prevJobs
     /\ lastCall.id \in DOMAIN prevConfigs) =>
        /\ lastCall.status = 200
        /\ lastCall.delayed =
              <<[func |-> prevConfigs[lastCall.id].task_function,
                 args |-> prevConfigs[lastCall.id].args,
                 kwargs |-> prevConfigs[lastCall.id].kwargs]>>
        /\ jobs = prevJobs
        /\ task_configs = prevConfigs

C17_Witness ==
    /\ lastCall.op = "POST /{task_id}/execute"
    /\ lastCall.id \in DOMAIN prevJobs
    /\ lastCall.id \in DOMAIN prevConfigs
    /\ ~prevConfigs[lastCall.id].enabled
    /\ prevJobs[lastCall.id].next_run_time = "none"
    /\ Len(lastCall.delayed) = 1

(***************************************************************************)
(* Claim about the monthly rollup task, checked under SpecMonthly          *)
(***************************************************************************)

\* C19: fetch_monthly_updates_task calls the month fetch exactly once, with
\* (y, m - 1) when the current date is in month m > 1 of year y, and with
\* (y - 1, 12) when the current date is in January of year y.
C19_MonthlyRollupFetchesPreviousMonth ==
    monthly_run.ran =>
        /\ Len(monthly_run.calls) = 1
        /\ monthly_run.calls[1] =
              IF monthly_run.on.month > 1
              THEN [year |-> monthly_run.on.year, month |-> monthly_run.on.month - 1]
              ELSE [year |-> monthly_run.on.year - 1, month |-> 12]

C19_Witness ==
    /\ monthly_run.ran
    /\ monthly_run.on.month = 1
    /\ monthly_run.on.day = 31
    /\ monthly_run.calls = <<[year |-> monthly_run.on.year - 1, month |-> 12]>>

(***************************************************************************)
(* Claim about the favorites, checked under SpecFav                        *)
(***************************************************************************)

LinksOf(d, gid) == {l \in d.links : l.game_id = gid}

\* The links a record asks for.
LinksAskedBy(rec) ==
    {LinkRow(Items(rec)[j].kind, rec.id, Items(rec)[j].a.id) :
        j \in 1..Len(Items(rec))}

\* C22: when fetch_games_for_month_task meets a record whose slug is stored
\* already, the stored row and its attribute links are the same after the
\* iteration as before, whatever the fetched values are; no row that was
\* stored when the run began is changed or removed by the run.
C22_MonthTaskLeavesExistingGameAlone ==
    /\ (lastStep.task = "fetch_games_for_month_task" /\ lastStep.existed) =>
          /\ ~lastStep.raised
          /\ \A g \in lastStep.before.games :
                g.slug = lastStep.rec.slug =>
                    /\ g \in db.games
                    /\ LinksOf(db, g.id) = LinksOf(lastStep.before, g.id)
          /\ get_game_by_slug(db, lastStep.rec.slug) =
                get_game_by_slug(lastStep.before, lastStep.rec.slug)
    /\ (task = "fetch_games_for_month_task" /\ tpc # "idle") =>
          gamesAfterPrev \subseteq db.games

C22_Witness ==
    /\ lastStep.task = "fetch_games_for_month_task"
    /\ lastStep.existed
    /\ lastStep.rec = GameA2
    /\ GameRow(GameA) \in db.games
    /\ LinksOf(db, 1) = LinksAskedBy(GameA)

\* C23: when fetch_weekly_updates_task processes a record whose slug is
\* stored already, the game's attribute links afterwards are exactly the
\* links of the fetched record.
C23_WeeklyTaskRelinksExistingGame ==
    (lastStep.task = "fetch_weekly_updates_task" /\ lastStep.existed) =>
        \A g \in get_game_by_slug(db, lastStep.rec.slug) :
            LinksOf(db, g.id) = LinksAskedBy([lastStep.rec EXCEPT !.id = g.id])

\* C25: when an iteration raises, the task is in the failure state with its
\* session closed, the iteration that raised is the last one of the run
\* (the cursor stays on its record), the rows stored before that iteration
\* and before the run are still stored, and the games the run counted as
\* created are among the rows.
C25_FailureEndsTheTaskAndKeepsEarlierWork ==
    /\ lastStep.raised => tpc = "failed"
    /\ tpc = "failed" =>
          /\ lastStep.raised
          /\ ~sessionOpen
          /\ cursor <= Len(games_data)
          /\ lastStep.rec = games_data[cursor]
          /\ lastStep.before.games \subseteq db.games
          /\ gamesAfterPrev \subseteq db.games
          /\ Cardinality(db.games) >= Cardinality(gamesAfterPrev) + games_created
          /\ db.games \ lastStep.before.games \subseteq {GameRow(lastStep.rec)}

C25_Witness ==
    /\ tpc = "failed"
    /\ lastStep.raised
    /\ games_created = 1
    /\ cursor = 2
    /\ ~sessionOpen
    /\ GameRow(games_data[1]) \in db.games \ gamesAfterPrev

\* C27: every stored Game row carries all the attribute links of the record
\* it was created from; a create_game that fails leaves no row behind.
C27_CreateGameIsAllOrNothing ==
    /\ \A g \in db.games :
          \E rec \in Records : g = GameRow(rec) /\ LinksAskedBy(rec) \subseteq db.links
    /\ (lastStep.branch = "create" /\ lastStep.raised) => db = lastStep.before

(***************************************************************************)
(* A further claim about the catalogue client, checked under SpecFetch     *)
(***************************************************************************)

\* An attempt that ended in a network error or a 5xx status.
TransientAttempt(a) ==
    \/ a.exc = "RequestError"
    \/ a.exc = "HTTPStatusError" /\ a.status \in 500..599

\* C26: every attempt of a page request that fails with a network error or
\* a 5xx status is followed by a wait of backoff_factor * 2^attempt seconds
\* (attempt counted from 0), and unless it was the last of the retries
\* attempts the request goes on to another GET.
C26_TransientFailureWaitsThenRetries ==
    \A j \in 1..Len(attempts) :
        TransientAttempt(attempts[j]) =>
            /\ attempts[j].slept = backoff_factor * Pow2(j - 1)
            /\ (LatestRequestOver /\ j < retries) => j < Len(attempts)

(***************************************************************************)
(* Further claims about the scheduler, checked under SpecSched             *)
(***************************************************************************)

SchedulerCalls == {"add_task", "remove_task", "pause_task", "resume_task", "modify_task"}

C30_StartOnRunningSchedulerIsNoOp ==
    (lastCall.op = "start" /\ lastCall.was_running) =>
        /\ running
        /\ jobs = prevJobs
        /\ task_configs = prevConfigs

C30_Witness ==
    /\ lastCall.op = "start"
    /\ lastCall.was_running
    /\ "monthly_updates" \notin DOMAIN jobs
    /\ "weekly_updates" \in DOMAIN jobs
    /\ jobs["weekly_updates"].next_run_time = "none"

(***************************************************************************)
(* A further claim about the management API, checked under SpecApi         *)
(***************************************************************************)

\* C29: an update-task request that is answered 200 and whose body does not
\* set enabled keeps the task's paused or enabled state: the stored flag is
\* the one from before, a paused task has no next fire time afterwards
\* either, an enabled task stays scheduled, and the request hands nothing to
\* the queue.
C29_UpdateKeepsPausedState ==
    ( /\ lastCall.op = "PUT /{task_id}"
      /\ lastCall.status = 200
      /\ "enabled" \notin DOMAIN lastCall.update ) =>
        /\ lastCall.id \in DOMAIN prevJobs \cap DOMAIN prevConfigs
        /\ lastCall.id \in DOMAIN jobs \cap DOMAIN task_configs
        /\ task_configs[lastCall.id].enabled = prevConfigs[lastCall.id].enabled
        /\ (jobs[lastCall.id].next_run_time = "none") <=>
              (prevJobs[lastCall.id].next_run_time = "none")
        /\ lastCall.delayed = <<>>

C29_Witness ==
    /\ lastCall.op = "PUT /{task_id}"
    /\ lastCall.status = 200
    /\ "enabled" \notin DOMAIN lastCall.update
    /\ lastCall.id \in DOMAIN prevJobs \cap DOMAIN prevConfigs
    /\ prevJobs[lastCall.id].next_run_time = "none"
    /\ ~prevConfigs[lastCall.id].enabled
    /\ prevConfigs[lastCall.id].name # "Task"
    /\ task_configs[lastCall.id].name = "Task"
    /\ jobs[lastCall.id].next_run_time = "none"

(***************************************************************************)
(* A claim about pausing, checked under SpecBroker                         *)
(***************************************************************************)

\* C24: a step that puts an execution on the queue is the firing of a job
\* whose task is enabled, so that between a pause_task and the next
\* resume_task the trigger submits nothing for the task; and a pause_task
\* call leaves the queue as it is, the executions submitted before it
\* included.
C24_PausedTaskSubmitsNothing ==
    [][ /\ (Len(queue') > Len(queue)) =>
              /\ lastCall'.op = "fire"
              /\ lastCall'.id \in DOMAIN task_configs
              /\ task_configs[lastCall'.id].enabled
              /\ Last(queue').job = lastCall'.id
        /\ (lastCall'.op = "pause_task" /\ schedVars' # schedVars) =>
              queue' = queue ]_vars

C24_Witness ==
    /\ lastCall.op = "pause_task"
    /\ lastCall.result
    /\ lastCall.id \in DOMAIN prevJobs
    /\ prevJobs[lastCall.id].next_run_time = "scheduled"
    /\ jobs[lastCall.id].next_run_time = "none"
    /\ \E k \in 1..Len(queue) : queue[k].job = lastCall.id

(***************************************************************************)
(* A claim about concurrent ingestion, checked under SpecRace              *)
(***************************************************************************)

\* C21: whatever the order of the checks and inserts of two ingestion tasks
\* that process records of one slug, the games table never holds two rows
\* with that slug, and no two open transactions hold rows of one slug.
C21_RaceNeverStoresSlugTwice ==
    /\ SlugsUnique(db.games)
    /\ \A w \in RaceWorkers :
          workers[w].pending =>
              /\ ~GameInsertConflicts(PendingOfOthers(w), GameRow(workers[w].rec))
              /\ ~GameInsertConflicts(db, GameRow(workers[w].rec))
    /\ \A w \in RaceWorkers :
          workers[w].pc = "done" => get_game_by_slug(db, workers[w].rec.slug) # {}

C21_Witness ==
    \E w1, w2 \in RaceWorkers :
        /\ w1 # w2
        /\ workers[w1].pc = "done"
        /\ workers[w2].pc = "failed"
        /\ workers[w2].raced
        /\ workers[w1].rec.slug = workers[w2].rec.slug
        /\ workers[w1].rec.id # workers[w2].rec.id
        /\ Cardinality(get_game_by_slug(db, workers[w1].rec.slug)) = 1

====
